---- MODULE Spec2Model ----
(***************************************************************************)
(* A model of django_s3_storage/storage.py: the S3Storage adapter, its     *)
(* thread-local client holder and the error wrapper, over an S3 bucket.    *)
(*                                                                         *)
(* Strings are sequences of one-character strings, so that startswith,     *)
(* endswith, slicing and posixpath.relpath are computed character by       *)
(* character.  Byte strings are sequences of numbers 0..255.               *)
(***************************************************************************)
EXTENDS Integers, Sequences, FiniteSets, TLC

VARIABLES
    bucket,     \* the S3 bucket: object key -> stored object, or NoObj
    conns,      \* _Local's per-thread dictionary: thread -> client id, 0 = not yet set
    created,    \* number of boto3.client(...) calls made so far
    uses,       \* history: the (thread, client) pairs that issued a backend request
    written,    \* history: per key, the content given to the last successful save
                \* (its kind, all its data and the position it had), none after a delete
    last,       \* the last operation: its arguments, backend requests and outcome
    kpc, kx, ky \* the key-mapper check: stage, input, current value

vars == <<bucket, conns, created, uses, written, last, kpc, kx, ky>>

---------------------------------------------------------------------------
(* Bounds of the model *)

NumThreads == 2     \* threads that share the one adapter instance
MaxKeys == 1        \* entries S3 puts in one page of a listing
MaxLen == 4         \* longest string given to the key mapper on its own

---------------------------------------------------------------------------
(* Strings *)

Sep == "/"

Str_a    == <<"a">>
Str_sa   == <<"/", "a">>
Str_bc   == <<"b", "/", "c">>
Str_bsc  == <<"b", "/", "/", "c">>
Str_b    == <<"b">>
Str_bs   == <<"b", "/">>
Str_xs   == <<"x", "/">>
Str_dot  == <<".">>

\* str.startswith / str.endswith with a one-character argument
startswith(s, c) == Len(s) > 0 /\ s[1] = c
endswith(s, c) == Len(s) > 0 /\ s[Len(s)] = c

\* str.startswith with a string argument
HasPrefix(s, p) == Len(p) <= Len(s) /\ SubSeq(s, 1, Len(p)) = p

\* byte order of the characters used (their ASCII codes), S3 lists keys in it
Ord(c) == CASE c = "." -> 46
            [] c = "/" -> 47
            [] c = "a" -> 97
            [] c = "b" -> 98
            [] c = "c" -> 99
            [] c = "x" -> 120

RECURSIVE StrLess(_, _)
StrLess(s, t) ==
    IF t = <<>> THEN FALSE
    ELSE IF s = <<>> THEN TRUE
    ELSE IF s[1] # t[1] THEN Ord(s[1]) < Ord(t[1])
    ELSE StrLess(Tail(s), Tail(t))

\* the strings of a finite set in ascending byte order
RECURSIVE SortedSeq(_)
SortedSeq(S) ==
    IF S = {} THEN <<>>
    ELSE LET m == CHOOSE x \in S : \A y \in S \ {x} : StrLess(x, y)
         IN  <<m>> \o SortedSeq(S \ {m})

\* index of the first occurrence of c in s, 0 when there is none
RECURSIVE FindChar(_, _, _)
FindChar(s, c, i) ==
    IF i > Len(s) THEN 0
    ELSE IF s[i] = c THEN i
    ELSE FindChar(s, c, i + 1)

\* str.split(sep): the segments between separators, empty ones included
RECURSIVE Split(_)
Split(s) ==
    LET i == FindChar(s, Sep, 1)
    IN  IF i = 0 THEN <<s>>
        ELSE <<SubSeq(s, 1, i - 1)>> \o Split(SubSeq(s, i + 1, Len(s)))

\* sep.join(segments)
RECURSIVE Join(_)
Join(segs) ==
    IF Len(segs) = 0 THEN <<>>
    ELSE IF Len(segs) = 1 THEN segs[1]
    ELSE segs[1] \o <<Sep>> \o Join(Tail(segs))

---------------------------------------------------------------------------
(* posixpath.relpath(path, start), for relative arguments below the working *)
(* directory: both are made absolute against the same directory, which the *)
(* common-prefix step removes again.                                       *)

\* posixpath.normpath's segment list: empty and "." segments dropped,
\* ".." removing the segment before it
RECURSIVE NormSegs(_, _)
NormSegs(segs, acc) ==
    IF Len(segs) = 0 THEN acc
    ELSE LET h == segs[1]
         IN  IF h = <<>> \/ h = <<".">> THEN NormSegs(Tail(segs), acc)
             ELSE IF h = <<".", ".">> /\ Len(acc) > 0
                       /\ acc[Len(acc)] # <<".", ".">>
                  THEN NormSegs(Tail(segs), SubSeq(acc, 1, Len(acc) - 1))
             ELSE NormSegs(Tail(segs), Append(acc, h))

\* length of the common prefix of two segment lists
RECURSIVE CommonLen(_, _)
CommonLen(a, b) ==
    IF Len(a) = 0 \/ Len(b) = 0 \/ a[1] # b[1] THEN 0
    ELSE 1 + CommonLen(Tail(a), Tail(b))

relpath(path, start) ==
    LET start_list == NormSegs(Split(start), <<>>)
        path_list == NormSegs(Split(path), <<>>)
        i == CommonLen(start_list, path_list)
        rel_list == [k \in 1..(Len(start_list) - i) |-> <<".", ".">>]
                        \o SubSeq(path_list, i + 1, Len(path_list))
    IN  IF Len(rel_list) = 0 THEN <<".">> ELSE Join(rel_list)

---------------------------------------------------------------------------
(* Key mapper *)

\* a key mapper that drops every leading separator (str.lstrip)
RECURSIVE _get_key_name_lstrip(_)
_get_key_name_lstrip(name) ==
    IF startswith(name, Sep) THEN _get_key_name_lstrip(Tail(name)) ELSE name

\* S3Storage._get_key_name
_get_key_name(name) ==
    IF startswith(name, Sep) THEN SubSeq(name, 2, Len(name)) ELSE name

---------------------------------------------------------------------------
(* Inputs *)

Threads == 1..NumThreads

\* the thread that runs S3Storage.__init__
ConstructorThread == 1

\* names given to open, save and delete on the read and write path
IONames == {Str_a, Str_sa, Str_bc}

\* names of the keys saved and deleted under the directory emulation
DirNames == {Str_a, Str_sa, Str_bc, Str_bsc}

\* names given to meta, size and exists
ProbeNames == DirNames \cup {Str_b, Str_bs, Str_xs}

\* paths given to listdir
ListPaths == {Str_dot, Str_b, <<"/", "b">>, Str_a}

Modes == {"rb", "w"}

Keys == {_get_key_name(n) : n \in IONames \cup DirNames}

\* content objects given to save: a binary or a text stream, at a position
Binary(d, p) == [text |-> FALSE, data |-> d, pos |-> p]
Text(d, p) == [text |-> TRUE, data |-> d, pos |-> p]
Contents == {Binary(<<>>, 0), Binary(<<7>>, 0), Binary(<<7>>, 1), Text(<<233>>, 0)}
DirContents == {Binary(<<7>>, 0)}

ValidContent(c) == c.pos <= Len(c.data)

---------------------------------------------------------------------------
(* Streams *)

\* file.seek(0)
seek0(f) == [f EXCEPT !.pos = 0]

\* file.read(): everything from the current position on
read(f) == SubSeq(f.data, f.pos + 1, Len(f.data))

\* UTF-8 encoding of one code point below 2048
Utf8(cp) == IF cp < 128 THEN <<cp>> ELSE <<192 + (cp \div 64), 128 + (cp % 64)>>

\* django.utils.encoding.force_bytes of a text chunk
RECURSIVE force_bytes(_)
force_bytes(chunk) ==
    IF Len(chunk) = 0 THEN <<>> ELSE Utf8(chunk[1]) \o force_bytes(Tail(chunk))

\* mimetypes.guess_type(name)[0] or "application/octet-stream": no name of
\* the model carries a registered extension
content_type(name) == "application/octet-stream"

---------------------------------------------------------------------------
(* The S3 service behind the boto3 client *)

NoObj == [present |-> FALSE, Body |-> <<>>, ContentType |-> ""]
Obj(body, ctype) == [present |-> TRUE, Body |-> body, ContentType |-> ctype]

Lookup(bkt, key) == IF key \in DOMAIN bkt THEN bkt[key] ELSE NoObj
KeysOf(bkt) == {k \in DOMAIN bkt : bkt[k].present}

\* get_object / head_object: a ClientError (404) when the key is absent,
\* and any request can fail with another ClientError (fault)
get_object(bkt, key, fault) ==
    IF fault THEN [err |-> "Other", obj |-> NoObj]
    ELSE IF ~Lookup(bkt, key).present THEN [err |-> "NotFound", obj |-> NoObj]
    ELSE [err |-> "", obj |-> Lookup(bkt, key)]

head_object(bkt, key, fault) == get_object(bkt, key, fault)

\* the entries of a listing in key order: keys under the prefix with no
\* delimiter after it, and each common prefix once
ListEntries(bkt, prefix, delimiter) ==
    LET matching == {k \in KeysOf(bkt) : HasPrefix(k, prefix)}
        rest(k) == SubSeq(k, Len(prefix) + 1, Len(k))
        cut(k) == IF delimiter = "" THEN 0 ELSE FindChar(rest(k), delimiter, 1)
        entry(k) == IF cut(k) = 0 THEN k ELSE SubSeq(k, 1, Len(prefix) + cut(k))
        rolled == {entry(k) : k \in {m \in matching : cut(m) # 0}}
        sorted == SortedSeq({entry(k) : k \in matching})
    IN  [i \in 1..Len(sorted) |->
            [name |-> sorted[i], common |-> sorted[i] \in rolled]]

\* one page of a listing
Page(entries) ==
    [Contents |-> SelectSeq(entries, LAMBDA e : ~e.common),
     CommonPrefixes |-> SelectSeq(entries, LAMBDA e : e.common)]

\* the pages of a listing, MaxKeys entries each; an empty listing is one
\* page with neither Contents nor CommonPrefixes
RECURSIVE Pages(_)
Pages(entries) ==
    IF Len(entries) <= MaxKeys THEN <<Page(entries)>>
    ELSE <<Page(SubSeq(entries, 1, MaxKeys))>>
            \o Pages(SubSeq(entries, MaxKeys + 1, Len(entries)))

\* list_objects(Bucket, Prefix, Delimiter): the first page
list_objects(bkt, prefix, delimiter) == Pages(ListEntries(bkt, prefix, delimiter))[1]

\* get_paginator("list_objects").paginate(...): every page
paginate(bkt, prefix, delimiter) == Pages(ListEntries(bkt, prefix, delimiter))

---------------------------------------------------------------------------
(* The thread-local client holder *)

\* a client kept on the adapter instead of in the thread-local holder
s3_connection_shared(t) == conns[ConstructorThread]

\* S3Storage.s3_connection read in thread t: the client of the thread's own
\* _Local dictionary; on the thread's first access _Local.__init__ runs in
\* it and makes a new client
s3_connection(t) == IF conns[t] = 0 THEN created + 1 ELSE conns[t]

\* the effect of reading s3_connection in thread t and issuing requests on it
UseConnection(t) ==
    /\ conns' = [conns EXCEPT ![t] = s3_connection(t)]
    /\ created' = IF conns[t] = 0 THEN created + 1 ELSE created
    /\ uses' = uses \cup {<<t, s3_connection(t)>>}

---------------------------------------------------------------------------
(* Outcomes *)

NoHandle == [open |-> FALSE, data |-> <<>>, pos |-> 0]
NoWrite == [kind |-> "none", data |-> <<>>, pos |-> 0]

\* the record of one operation: outcome is "ok" or the exception raised,
\* cause the class of the backend failure behind it, calls the backend
\* requests issued, the other fields what the operation returned or left
Base(op, t, name) ==
    [op |-> op, thread |-> t, name |-> name, mode |-> "", outcome |-> "ok",
     cause |-> "", calls |-> <<>>, bool |-> FALSE, handle |-> NoHandle,
     body |-> <<>>, num |-> 0, ctype |-> "", dirs |-> <<>>, files |-> <<>>,
     temps |-> <<>>]

Call(api, t, key, delimiter) ==
    [api |-> api, key |-> key, delimiter |-> delimiter,
     client |-> s3_connection(t), thread |-> t]

\* _wrap_errors: a ClientError leaves as S3Error, anything else as it is
_wrap_errors(exc) == IF exc = "ClientError" THEN "S3Error" ELSE exc

\* S3Storage._object_params
_object_params(name) == [Key |-> _get_key_name(name)]

---------------------------------------------------------------------------
(* S3Storage._open *)

\* an _open that tests the mode only after the object was fetched
_open_late_check(t, name, mode, fault) ==
    LET base == [Base("open", t, name) EXCEPT !.mode = mode]
        key == _object_params(name).Key
        call == Call("get_object", t, key, "")
        obj == get_object(bucket, key, fault)
        copied == [open |-> TRUE, data |-> obj.obj.Body, pos |-> Len(obj.obj.Body)]
    IN  IF obj.err # ""
        THEN [base EXCEPT !.outcome = _wrap_errors("ClientError"),
                          !.cause = obj.err, !.calls = <<call>>]
        ELSE IF mode # "rb"
             THEN [base EXCEPT !.outcome = _wrap_errors("ValueError"),
                               !.calls = <<call>>]
        ELSE [base EXCEPT !.calls = <<call>>, !.handle = seek0(copied)]

_open(t, name, mode, fault) ==
    LET base == [Base("open", t, name) EXCEPT !.mode = mode]
        key == _object_params(name).Key
        call == Call("get_object", t, key, "")
        obj == get_object(bucket, key, fault)
        copied == [open |-> TRUE, data |-> obj.obj.Body, pos |-> Len(obj.obj.Body)]
    IN  IF mode # "rb" THEN [base EXCEPT !.outcome = _wrap_errors("ValueError")]
        ELSE IF obj.err # ""
             THEN [base EXCEPT !.outcome = _wrap_errors("ClientError"),
                               !.cause = obj.err, !.calls = <<call>>]
        ELSE [base EXCEPT !.calls = <<call>>, !.handle = seek0(copied)]

---------------------------------------------------------------------------
(* S3Storage._save *)

\* a save that reads the content from wherever the caller left it
rewind_skipped(content) == content

\* content.seek(0) before anything is read
rewind(content) == seek0(content)

\* File.chunks() of a text file, each chunk through force_bytes into the
\* temporary file, which is then rewound
drain(content) == [data |-> force_bytes(read(seek0(content))), pos |-> 0]

\* the temporary files left by _save: closed only after put_object returned
close_temp_files(temp_files, uploaded) ==
    [i \in 1..Len(temp_files) |-> [closed |-> uploaded]]

_save(t, name, content, drainFault, putFault) ==
    LET base == Base("save", t, name)
        key == _object_params(name).Key
        rewound == rewind(content)
        temp_files == IF content.text THEN <<[closed |-> FALSE]>> ELSE <<>>
        source == IF content.text THEN drain(rewound) ELSE rewound
        call == Call("put_object", t, key, "")
    IN  IF content.text /\ drainFault
        THEN [base EXCEPT !.outcome = _wrap_errors("IOError"),
                          !.temps = close_temp_files(temp_files, FALSE)]
        ELSE IF putFault
        THEN [base EXCEPT !.outcome = _wrap_errors("ClientError"),
                          !.cause = "Other", !.calls = <<call>>,
                          !.temps = close_temp_files(temp_files, FALSE)]
        ELSE [base EXCEPT !.calls = <<call>>, !.body = read(source),
                          !.ctype = content_type(name),
                          !.temps = close_temp_files(temp_files, TRUE)]

---------------------------------------------------------------------------
(* S3Storage.meta, size, delete *)

meta(t, name, fault) ==
    LET base == Base("meta", t, name)
        key == _object_params(name).Key
        call == Call("head_object", t, key, "")
        head == head_object(bucket, key, fault)
    IN  IF head.err # ""
        THEN [base EXCEPT !.outcome = _wrap_errors("ClientError"),
                          !.cause = head.err, !.calls = <<call>>]
        ELSE [base EXCEPT !.calls = <<call>>, !.num = Len(head.obj.Body),
                          !.ctype = head.obj.ContentType]

\* self.meta(name)["ContentLength"]
size(t, name, fault) == [meta(t, name, fault) EXCEPT !.op = "size"]

delete(t, name, fault) ==
    LET base == Base("delete", t, name)
        call == Call("delete_object", t, _object_params(name).Key, "")
    IN  IF fault
        THEN [base EXCEPT !.outcome = _wrap_errors("ClientError"),
                          !.cause = "Other", !.calls = <<call>>]
        ELSE [base EXCEPT !.calls = <<call>>]

---------------------------------------------------------------------------
(* S3Storage.exists *)

\* a directory probe that lists only the keys under the name's own prefix
exists_dir_scoped(t, name, fault, sofar) ==
    LET prefix == _get_key_name(name)
        call == Call("list_objects", t, prefix, "")
        results == list_objects(bucket, prefix, "")
    IN  IF fault
        THEN [sofar EXCEPT !.outcome = "ClientError",
                           !.calls = sofar.calls \o <<call>>]
        ELSE [sofar EXCEPT !.calls = sofar.calls \o <<call>>,
                           !.bool = (Len(results.Contents) > 0)]

\* the branch for a name that ends with "/": one list_objects on the whole
\* bucket, outside _wrap_errors
exists_dir(t, name, fault, sofar) ==
    LET call == Call("list_objects", t, <<>>, "")
        results == list_objects(bucket, <<>>, "")
    IN  IF fault
        THEN [sofar EXCEPT !.outcome = "ClientError",
                           !.calls = sofar.calls \o <<call>>]
        ELSE [sofar EXCEPT !.calls = sofar.calls \o <<call>>,
                           !.bool = (Len(results.Contents) > 0)]

\* an exists that answers False as soon as meta raises
exists_false_on_error(t, name, headFault, listFault) ==
    LET base == Base("exists", t, name)
        m == meta(t, name, headFault)
    IN  IF endswith(name, Sep) THEN exists_dir(t, name, listFault, base)
        ELSE IF m.outcome # "ok"
             THEN [base EXCEPT !.calls = m.calls, !.cause = m.cause, !.bool = FALSE]
        ELSE [base EXCEPT !.calls = m.calls, !.bool = TRUE]

exists(t, name, headFault, listFault) ==
    LET base == Base("exists", t, name)
        m == meta(t, name, headFault)
    IN  IF endswith(name, Sep) THEN exists_dir(t, name, listFault, base)
        ELSE IF m.outcome = "S3Error"
             THEN exists_dir(t, name \o <<Sep>>, listFault,
                             [base EXCEPT !.calls = m.calls, !.cause = m.cause])
        ELSE IF m.outcome # "ok"
             THEN [base EXCEPT !.outcome = m.outcome, !.calls = m.calls,
                               !.cause = m.cause]
        ELSE [base EXCEPT !.calls = m.calls, !.bool = TRUE]

---------------------------------------------------------------------------
(* S3Storage.listdir *)

\* the files and dirs lists after the loop over the pages
RECURSIVE collect(_, _, _)
collect(pages, path, acc) ==
    IF Len(pages) = 0 THEN acc
    ELSE LET page == pages[1]
             fs == [i \in 1..Len(page.Contents) |->
                        relpath(page.Contents[i].name, path)]
             ds == [i \in 1..Len(page.CommonPrefixes) |->
                        relpath(page.CommonPrefixes[i].name, path)]
         IN  collect(Tail(pages), path,
                     [files |-> acc.files \o fs, dirs |-> acc.dirs \o ds])

\* the prefix listdir asks for
listdir_prefix(path) ==
    LET key == _get_key_name(path)
    IN  IF key = Str_dot THEN <<>> ELSE key \o <<Sep>>

listdir(t, path, fault) ==
    LET base == Base("listdir", t, path)
        prefix == listdir_prefix(path)
        pages == paginate(bucket, prefix, Sep)
        call == Call("list_objects", t, prefix, Sep)
        got == collect(pages, prefix, [files |-> <<>>, dirs |-> <<>>])
    IN  IF fault
        THEN [base EXCEPT !.outcome = "ClientError", !.cause = "Other",
                          !.calls = <<call>>]
        ELSE [base EXCEPT !.calls = [i \in 1..Len(pages) |-> call],
                          !.dirs = got.dirs, !.files = got.files]

---------------------------------------------------------------------------
(* Actions: one call of a public operation by one thread *)

\* what every operation does besides its effect on the bucket
Finish(t, rec) ==
    /\ last' = rec
    /\ IF rec.calls # <<>> THEN UseConnection(t)
       ELSE UNCHANGED <<conns, created, uses>>
    /\ UNCHANGED <<kpc, kx, ky>>

Running == kpc = "off"

Open(t, name, mode, fault) ==
    /\ Running
    /\ Finish(t, _open(t, name, mode, fault))
    /\ UNCHANGED <<bucket, written>>

Save(t, name, content, drainFault, putFault) ==
    LET rec == _save(t, name, content, drainFault, putFault)
        key == _object_params(name).Key
    IN  /\ Running
        /\ ValidContent(content)
        /\ Finish(t, rec)
        /\ IF rec.outcome = "ok"
           THEN /\ bucket' = [bucket EXCEPT ![key] = Obj(rec.body, rec.ctype)]
                /\ written' = [written EXCEPT ![key] =
                        [kind |-> IF content.text THEN "text" ELSE "binary",
                         data |-> content.data, pos |-> content.pos]]
           ELSE UNCHANGED <<bucket, written>>

Delete(t, name, fault) ==
    LET rec == delete(t, name, fault)
        key == _object_params(name).Key
    IN  /\ Running
        /\ Finish(t, rec)
        /\ IF rec.outcome = "ok" /\ key \in DOMAIN bucket
           THEN /\ bucket' = [bucket EXCEPT ![key] = NoObj]
                /\ written' = [written EXCEPT ![key] = NoWrite]
           ELSE UNCHANGED <<bucket, written>>

Meta(t, name, fault) ==
    /\ Running
    /\ Finish(t, meta(t, name, fault))
    /\ UNCHANGED <<bucket, written>>

Size(t, name, fault) ==
    /\ Running
    /\ Finish(t, size(t, name, fault))
    /\ UNCHANGED <<bucket, written>>

Exists(t, name, headFault, listFault) ==
    /\ Running
    /\ Finish(t, exists(t, name, headFault, listFault))
    /\ UNCHANGED <<bucket, written>>

Listdir(t, path, fault) ==
    /\ Running
    /\ Finish(t, listdir(t, path, fault))
    /\ UNCHANGED <<bucket, written>>

\* the faults a save can meet: draining fails (text only), or put_object fails
SaveFaults(c) ==
    {<<FALSE, FALSE>>, <<FALSE, TRUE>>} \cup (IF c.text THEN {<<TRUE, FALSE>>} ELSE {})

\* the read and write path, with the probes that leave the bucket alone
OpenStep ==
    \E t \in Threads, n \in IONames \cup {Str_b}, m \in Modes, f \in BOOLEAN :
        Open(t, n, m, f)
SaveStep ==
    \E t \in Threads, n \in IONames, c \in Contents :
        \E fs \in SaveFaults(c) : Save(t, n, c, fs[1], fs[2])
DeleteStep == \E t \in Threads, n \in IONames, f \in BOOLEAN : Delete(t, n, f)
IOExistsStep ==
    \E t \in Threads, n \in IONames \cup {Str_bs}, hf \in BOOLEAN, lf \in BOOLEAN :
        Exists(t, n, hf, lf)
IOListdirStep == \E t \in Threads, p \in {Str_dot, Str_b}, f \in BOOLEAN : Listdir(t, p, f)

\* the directory emulation
DirSaveStep ==
    \E t \in Threads, n \in DirNames, c \in DirContents, pf \in BOOLEAN :
        Save(t, n, c, FALSE, pf)
DirDeleteStep == \E t \in Threads, n \in DirNames, f \in BOOLEAN : Delete(t, n, f)
MetaStep == \E t \in Threads, n \in ProbeNames, f \in BOOLEAN : Meta(t, n, f)
SizeStep == \E t \in Threads, n \in ProbeNames, f \in BOOLEAN : Size(t, n, f)
ExistsStep ==
    \E t \in Threads, n \in ProbeNames, hf \in BOOLEAN, lf \in BOOLEAN :
        Exists(t, n, hf, lf)
ListdirStep == \E t \in Threads, p \in ListPaths, f \in BOOLEAN : Listdir(t, p, f)

\* the state after S3Storage(): an empty bucket, and _Local() has run
\* _Local.__init__ in the constructing thread
Init ==
    /\ bucket = [k \in Keys |-> NoObj]
    /\ conns = [t \in Threads |-> IF t = ConstructorThread THEN 1 ELSE 0]
    /\ created = 1
    /\ uses = {}
    /\ written = [k \in Keys |-> NoWrite]
    /\ last = Base("none", 0, <<>>)
    /\ kpc = "off"
    /\ kx = <<>>
    /\ ky = <<>>

Next ==
    \/ OpenStep
    \/ SaveStep
    \/ DeleteStep
    \/ IOExistsStep
    \/ IOListdirStep

Spec == Init /\ [][Next]_vars

DirNext ==
    \/ DirSaveStep
    \/ DirDeleteStep
    \/ MetaStep
    \/ SizeStep
    \/ ExistsStep
    \/ ListdirStep

DirSpec == Init /\ [][DirNext]_vars

---------------------------------------------------------------------------
(* The key mapper on its own: _get_key_name applied to a string, and then  *)
(* to its own result.  ky holds the input and the successive results.      *)

Alphabet == {"/", ".", "a"}

RECURSIVE StringsUpTo(_)
StringsUpTo(n) ==
    IF n = 0 THEN {<<>>}
    ELSE LET shorter == StringsUpTo(n - 1)
         IN  shorter \cup {Append(x, c) : x \in {y \in shorter : Len(y) = n - 1},
                                          c \in Alphabet}

KeyInit ==
    /\ bucket = [k \in Keys |-> NoObj]
    /\ conns = [t \in Threads |-> IF t = ConstructorThread THEN 1 ELSE 0]
    /\ created = 1
    /\ uses = {}
    /\ written = [k \in Keys |-> NoWrite]
    /\ last = Base("none", 0, <<>>)
    /\ kpc = "given"
    /\ kx \in StringsUpTo(MaxLen)
    /\ ky = <<kx>>

MapKey ==
    /\ kpc = "given"
    /\ ky' = Append(ky, _get_key_name(kx))
    /\ kpc' = "mapped"
    /\ UNCHANGED <<bucket, conns, created, uses, written, last, kx>>

MapKeyAgain ==
    /\ kpc = "mapped"
    /\ ky' = Append(ky, _get_key_name(ky[2]))
    /\ kpc' = "remapped"
    /\ UNCHANGED <<bucket, conns, created, uses, written, last, kx>>

KeyNext ==
    \/ MapKey
    \/ MapKeyAgain

KeySpec == KeyInit /\ [][KeyNext]_vars

---------------------------------------------------------------------------
(* Properties *)

KeyOf(name) == _get_key_name(name)
Range(f) == {f[i] : i \in DOMAIN f}
IsExistsOnFile == last.op = "exists" /\ ~endswith(last.name, Sep)

\* C1: round trip.  When the last successful mutation of the key of P was a
\* save of binary content C, open(P, "rb") succeeds unless the backend
\* request itself fails, and returns a handle at offset 0 holding all the
\* bytes of C, whatever position C's stream had at the save and also when C
\* is empty.
C1_RoundTrip ==
    (/\ last.op = "open"
     /\ last.mode = "rb"
     /\ KeyOf(last.name) \in DOMAIN written
     /\ written[KeyOf(last.name)].kind = "binary")
        => /\ last.cause # "NotFound"
           /\ (last.cause = "" => last.outcome = "ok")
           /\ (last.outcome = "ok" =>
                    /\ last.handle.open
                    /\ last.handle.pos = 0
                    /\ last.handle.data = written[KeyOf(last.name)].data)

\* C1 witness: a name opened after its key was saved from a stream that had
\* already been read to its end, and the handle holds the byte all the same
C1_Witness ==
    /\ last.op = "open"
    /\ last.outcome = "ok"
    /\ last.name = Str_sa
    /\ written[Str_a] = [kind |-> "binary", data |-> <<7>>, pos |-> 1]
    /\ last.handle.data = <<7>>

\* after an open in a mode other than "rb": the mode error, and no request
C2_RejectedInState ==
    (last.op = "open" /\ last.mode # "rb")
        => (last.outcome = "ValueError" /\ last.calls = <<>>)

\* a step that is such an open changes neither the bucket nor the clients
C2_RejectedStep ==
    (last' # last /\ last'.op = "open" /\ last'.mode # "rb")
        => UNCHANGED <<bucket, conns, created, uses, written>>

\* C2: open in a mode other than "rb" raises the mode error (ValueError in
\* this code, not the wrapped storage error), with no backend request issued
\* and the bucket, the per-thread clients and their use left as they were.
C2_OpenModeRejected == []C2_RejectedInState /\ [][C2_RejectedStep]_vars

\* C2 witness: a thread that has no client yet opens an existing object in
\* write mode, and still has no client afterwards
C2_Witness ==
    /\ last.op = "open"
    /\ last.mode = "w"
    /\ last.thread # ConstructorThread
    /\ conns[last.thread] = 0
    /\ Lookup(bucket, KeyOf(last.name)).present

\* C3: for a name not ending with the separator, exists goes on to the
\* directory probe only when meta failed with a not-found error; when meta
\* failed with another backend error, exists returns no boolean but raises.
C3_OtherErrorsPropagate ==
    IsExistsOnFile
        => /\ (last.cause = "Other" => last.outcome # "ok")
           /\ (Len(last.calls) > 1 => last.cause = "NotFound")

\* C4: no public operation lets the backend's own exception (ClientError)
\* reach the caller; every backend failure arrives as S3Error.
C4_NoRawBackendError == last.outcome # "ClientError"

\* C5: when save returns or raises, every temporary file it made is closed.
C5_TempFilesClosed ==
    last.op = "save" => \A i \in DOMAIN last.temps : last.temps[i].closed

\* the first mapping drops one leading separator, or nothing
C6_StripsOne ==
    Len(ky) >= 2
        => ky[2] = (IF Len(kx) > 0 /\ kx[1] = Sep THEN Tail(kx) ELSE kx)

\* the second mapping changes nothing
C6_Idempotent == Len(ky) = 3 => ky[3] = ky[2]

\* C6 (as claimed): the key mapper drops exactly one leading separator,
\* leaves every other string as it is, and mapping a second time changes
\* nothing, for every string.
C6_StripOneAndIdempotent == C6_StripsOne /\ C6_Idempotent

BeginsWithTwoSeparators(x) == Len(x) >= 2 /\ x[1] = Sep /\ x[2] = Sep

\* C6 (amended): the key mapper drops exactly one leading separator and
\* leaves every other string as it is; mapping a second time changes nothing
\* exactly when the string does not begin with two separators, and drops the
\* second separator when it does.
C6_StripOneIdempotentOnce ==
    /\ C6_StripsOne
    /\ (Len(ky) = 3 /\ ~BeginsWithTwoSeparators(kx)) => ky[3] = ky[2]
    /\ (Len(ky) = 3 /\ BeginsWithTwoSeparators(kx))
            => (ky[3] = Tail(ky[2]) /\ ky[3] # ky[2])

\* C6 witness: "//a" mapped twice gives "/a" and then "a"
C6_Witness ==
    /\ kx = <<"/", "/", "a">>
    /\ ky = <<kx, Str_sa, Str_a>>

\* C7: for a name P not ending with the separator, exists(P) is never false
\* while an object is stored under the key of P (from a successful save to
\* the next delete), it is true outright when the metadata request did not
\* fail, and it is false when the key has no object and the bucket holds
\* none at all.
C7_ExistsOnFile ==
    IsExistsOnFile
        => LET key == KeyOf(last.name)
               saved == key \in DOMAIN written /\ written[key].kind # "none"
           IN  /\ saved => last.cause # "NotFound"
               /\ (saved /\ last.cause = "") => (last.outcome = "ok" /\ last.bool)
               /\ (saved /\ last.outcome = "ok") => last.bool
               /\ (KeysOf(bucket) = {} /\ last.outcome = "ok") => ~last.bool
               /\ (~Lookup(bucket, key).present /\ last.outcome # "ClientError")
                        => (last.outcome = "ok" /\ last.cause # "")

\* C7 witness: exists of a saved name answers true although its metadata
\* request failed with a backend error other than not-found
C7_Witness ==
    /\ IsExistsOnFile
    /\ last.name = Str_sa
    /\ written[Str_a].kind = "binary"
    /\ last.cause = "Other"
    /\ last.outcome = "ok"
    /\ last.bool

C9_ListdirChildren ==
    (last.op = "listdir" /\ last.outcome = "ok")
        => LET key == KeyOf(last.name)
               prefix == IF key = Str_dot THEN <<>> ELSE key \o <<Sep>>
               rest(k) == SubSeq(k, Len(prefix) + 1, Len(k))
               under == {k \in KeysOf(bucket) : HasPrefix(k, prefix)}
               direct == {k \in under : FindChar(rest(k), Sep, 1) = 0}
               segment(k) == SubSeq(rest(k), 1, FindChar(rest(k), Sep, 1) - 1)
           IN  /\ Range(last.files) = {rest(k) : k \in direct}
               /\ Range(last.dirs) = {segment(k) : k \in under \ direct}

\* a thread keeps the one client for all its calls, and no client serves
\* two threads
C10_OwnClient ==
    /\ \A u \in uses : conns[u[1]] = u[2]
    /\ \A u, v \in uses : (u[2] = v[2]) => (u[1] = v[1])
    /\ \A t, r \in Threads : (conns[t] # 0 /\ conns[t] = conns[r]) => t = r

====
